---- MODULE Spec2Model ----
(***************************************************************************)
(* A model of dsc40graph: the UndirectedGraph and DirectedGraph containers *)
(* of src/dsc40graph.py, their adjacency dictionaries, the maintained edge *)
(* counter and the edge view.                                              *)
(*                                                                         *)
(* A Python dict is modelled as a function whose DOMAIN is its key set; a  *)
(* Python set as a set.  The order in which a dict or a set is iterated is *)
(* not part of the state: where the code depends on it (the first node of  *)
(* arbitrary_node, the parents visited before a KeyError in remove_node)   *)
(* every order is a possible outcome.                                      *)
(***************************************************************************)
EXTENDS Integers, FiniteSets, Sequences, TLC

\* The labels used on an UndirectedGraph are 1..NumLabels.
NumLabels == 4

\* The labels used on a DirectedGraph are 1..NumDirectedLabels (a directed
\* graph has two stores and self-loops: its states are far more numerous).
NumDirectedLabels == 2

\* Calls that would take the edge counter of a DirectedGraph further than
\* MaxDrift from the number of edges in adj are not made (that counter is
\* otherwise unbounded).  The calls on an UndirectedGraph are not restricted.
MaxDrift == 1

VARIABLES
    graph_class,      \* "UndirectedGraph" or "DirectedGraph": the class constructed
    adj,              \* self.adj: dict label -> set of labels
    back_adj,         \* self.back_adj: dict label -> set of labels (DirectedGraph)
    number_of_edges,  \* self._number_of_edges
    edge_view,        \* an edge view held by the caller: its _number_of_edges, or NoView
    pre,              \* adj, back_adj and _number_of_edges when the last call began
    last              \* the last call: op, args, outcome and returned value

vars == <<graph_class, adj, back_adj, number_of_edges, edge_view, pre, last>>

NoView == [held |-> FALSE, number_of_edges |-> 0]

\* dict() : the empty dictionary
EmptyDict == [x \in {} |-> {}]

\* d[k] = val
dict_set(d, k, val) == [x \in (DOMAIN d) \cup {k} |-> IF x = k THEN val ELSE d[x]]

\* del d[k]
dict_del(d, k) == [x \in (DOMAIN d) \ {k} |-> d[x]]

\* if k not in d: d[k] = set()
setdefault_empty(d, k) == IF k \in DOMAIN d THEN d ELSE dict_set(d, k, {})

\* d[k].add(x), for k a key of d
set_add(d, k, x) == [d EXCEPT ![k] = @ \cup {x}]

\* d[k].discard(x), for k a key of d
set_discard(d, k, x) == [d EXCEPT ![k] = @ \ {x}]

\* _EdgeView.__contains__: v in adj[u], False on KeyError
EdgeView_contains(a, u, v) == IF u \in DOMAIN a THEN v \in a[u] ELSE FALSE

\* _EdgeView.__len__ of a view constructed with counter value n
EdgeView_len(n) == n

\* _NodesView.__contains__ over adj.keys()
NodesView_contains(a, label) == label \in DOMAIN a

\* The edges in the store a: the ordered pairs (u, v) with v in a[u], and
\* the unordered pairs {u, v} (a self-loop is the singleton {u}).
OrderedPairs(a) == {p \in (DOMAIN a) \X UNION {a[x] : x \in DOMAIN a} : p[2] \in a[p[1]]}
UnorderedPairs(a) == {{p[1], p[2]} : p \in OrderedPairs(a)}

\* The graph object as a record, and the result of a call on it.
Graph(a, b, n) == [adj |-> a, back_adj |-> b, number_of_edges |-> n]

Result(a, b, n, outcome, value) ==
    [adj |-> a, back_adj |-> b, number_of_edges |-> n,
     outcome |-> outcome, value |-> value]

\* The iterations of "for p in S: a[p].discard(label); counter -= 1" that the
\* set's iteration order allows.  The loop stops with KeyError at the first
\* p that is no key of a, and, when S is the set a[label] itself
\* (iterating_own_set) and p = label, with RuntimeError after that pass
\* (set changed size during iteration).  visited counts the passes that
\* decremented the counter.
discard_from(a, D, label) ==
    [x \in DOMAIN a |-> IF x \in D THEN a[x] \ {label} ELSE a[x]]

discard_loop(a, S, label, iterating_own_set) ==
    LET missing == {p \in S : p \notin DOMAIN a}
        resized == IF iterating_own_set THEN (S \cap {label}) \ missing ELSE {}
        plain   == S \ (missing \cup resized)
    IN  IF missing = {} /\ resized = {}
        THEN {[adj |-> discard_from(a, S, label),
               visited |-> Cardinality(S), outcome |-> "ok"]}
        ELSE {[adj |-> discard_from(a, D, label),
               visited |-> Cardinality(D), outcome |-> "KeyError"] :
                   D \in IF missing = {} THEN {} ELSE SUBSET plain}
             \cup
             {[adj |-> discard_from(a, D \cup resized, label),
               visited |-> Cardinality(D) + 1, outcome |-> "RuntimeError"] :
                   D \in IF resized = {} THEN {} ELSE SUBSET plain}

(***************************************************************************)
(* The methods.  Each gives the set of results the call can have on the    *)
(* graph g: the stores and the counter after the call, how it ended ("ok"  *)
(* or the name of the exception raised) and the value returned.            *)
(***************************************************************************)

\* _Graph.add_node
add_node(g, label) ==
    IF ~NodesView_contains(g.adj, label)
    THEN {Result(dict_set(g.adj, label, {}), g.back_adj, g.number_of_edges, "ok", {})}
    ELSE {Result(g.adj, g.back_adj, g.number_of_edges, "ok", {})}

\* _Graph.arbitrary_node that takes the node out of the dictionary
\* (self.adj.popitem()) instead of reading it.
arbitrary_node_popping(g) ==
    IF DOMAIN g.adj = {}
    THEN {Result(g.adj, g.back_adj, g.number_of_edges, "DoesNotExistError", {})}
    ELSE {Result(dict_del(g.adj, x), g.back_adj, g.number_of_edges, "ok", {x}) :
              x \in DOMAIN g.adj}

\* _Graph.arbitrary_node: next(iter(self.nodes))
arbitrary_node(g) ==
    IF DOMAIN g.adj = {}
    THEN {Result(g.adj, g.back_adj, g.number_of_edges, "DoesNotExistError", {})}
    ELSE {Result(g.adj, g.back_adj, g.number_of_edges, "ok", {x}) : x \in DOMAIN g.adj}

\* UndirectedGraph.add_edge without the test "(u, v) not in self.edges": the
\* counter goes up on every call.
Undirected_add_edge_unchecked(g, u_label, v_label) ==
    IF u_label = v_label
    THEN {Result(g.adj, g.back_adj, g.number_of_edges, "ValueError", {})}
    ELSE LET a1 == setdefault_empty(setdefault_empty(g.adj, u_label), v_label)
         IN  {Result(set_add(set_add(a1, u_label, v_label), v_label, u_label),
                     g.back_adj, g.number_of_edges + 1, "ok", {})}

\* UndirectedGraph.add_edge with the self-loop test after the loop that
\* creates the nodes: add_edge(x, x) creates x and then raises.
Undirected_add_edge_late_check(g, u_label, v_label) ==
    LET a1 == setdefault_empty(setdefault_empty(g.adj, u_label), v_label)
    IN  IF u_label = v_label
        THEN {Result(a1, g.back_adj, g.number_of_edges, "ValueError", {})}
        ELSE IF ~EdgeView_contains(a1, u_label, v_label)
        THEN {Result(set_add(set_add(a1, u_label, v_label), v_label, u_label),
                     g.back_adj, g.number_of_edges + 1, "ok", {})}
        ELSE {Result(a1, g.back_adj, g.number_of_edges, "ok", {})}

\* UndirectedGraph.add_edge
Undirected_add_edge(g, u_label, v_label) ==
    IF u_label = v_label
    THEN {Result(g.adj, g.back_adj, g.number_of_edges, "ValueError", {})}
    ELSE LET a1 == setdefault_empty(setdefault_empty(g.adj, u_label), v_label)
         IN  IF ~EdgeView_contains(a1, u_label, v_label)
             THEN {Result(set_add(set_add(a1, u_label, v_label), v_label, u_label),
                          g.back_adj, g.number_of_edges + 1, "ok", {})}
             ELSE {Result(a1, g.back_adj, g.number_of_edges, "ok", {})}

\* UndirectedGraph.remove_node with the decrement outside the loop: the
\* counter goes down by one for a node that has neighbors, whatever their
\* number.
Undirected_remove_node_one_decrement(g, label) ==
    IF label \notin DOMAIN g.adj
    THEN {Result(g.adj, g.back_adj, g.number_of_edges, "DoesNotExistError", {})}
    ELSE {Result(dict_del(discard_from(g.adj, g.adj[label], label), label), g.back_adj,
                 g.number_of_edges - (IF g.adj[label] = {} THEN 0 ELSE 1), "ok", {})}

\* UndirectedGraph.remove_node without "self.adj[neighbor].discard(label)":
\* the node's entry is deleted and the counter lowered, but the neighbors
\* keep the label in their sets.
Undirected_remove_node_keep_references(g, label) ==
    IF label \notin DOMAIN g.adj
    THEN {Result(g.adj, g.back_adj, g.number_of_edges, "DoesNotExistError", {})}
    ELSE {Result(dict_del(g.adj, label), g.back_adj,
                 g.number_of_edges - Cardinality(g.adj[label]), "ok", {})}

\* UndirectedGraph.remove_node
Undirected_remove_node(g, label) ==
    IF label \notin DOMAIN g.adj
    THEN {Result(g.adj, g.back_adj, g.number_of_edges, "DoesNotExistError", {})}
    ELSE {IF r.outcome = "ok"
          THEN Result(dict_del(r.adj, label), g.back_adj,
                      g.number_of_edges - r.visited, "ok", {})
          ELSE Result(r.adj, g.back_adj, g.number_of_edges - r.visited, r.outcome, {}) :
              r \in discard_loop(g.adj, g.adj[label], label, TRUE)}

\* UndirectedGraph.remove_edge without "self.adj[v_label].discard(u_label)":
\* the edge is removed from the set of one endpoint only.
Undirected_remove_edge_one_sided(g, u_label, v_label) ==
    IF ~EdgeView_contains(g.adj, u_label, v_label)
    THEN {Result(g.adj, g.back_adj, g.number_of_edges, "DoesNotExistError", {})}
    ELSE {Result(set_discard(g.adj, u_label, v_label), g.back_adj,
                 g.number_of_edges - 1, "ok", {})}

\* UndirectedGraph.remove_edge without the test "(u, v) not in self.edges".
Undirected_remove_edge_unchecked(g, u_label, v_label) ==
    IF u_label \notin DOMAIN g.adj \/ v_label \notin DOMAIN g.adj
    THEN {Result(g.adj, g.back_adj, g.number_of_edges, "KeyError", {})}
    ELSE {Result(set_discard(set_discard(g.adj, u_label, v_label), v_label, u_label),
                 g.back_adj, g.number_of_edges - 1, "ok", {})}

\* UndirectedGraph.remove_edge
Undirected_remove_edge(g, u_label, v_label) ==
    IF ~EdgeView_contains(g.adj, u_label, v_label)
    THEN {Result(g.adj, g.back_adj, g.number_of_edges, "DoesNotExistError", {})}
    ELSE LET a1 == set_discard(g.adj, u_label, v_label)
         IN  IF v_label \notin DOMAIN a1
             THEN {Result(a1, g.back_adj, g.number_of_edges, "KeyError", {})}
             ELSE {Result(set_discard(a1, v_label, u_label), g.back_adj,
                          g.number_of_edges - 1, "ok", {})}

\* UndirectedGraph.neighbors, DirectedGraph.successors and its alias
\* DirectedGraph.neighbors: self.adj[label]
neighbors(g, label) ==
    IF label \notin DOMAIN g.adj
    THEN {Result(g.adj, g.back_adj, g.number_of_edges, "KeyError", {})}
    ELSE {Result(g.adj, g.back_adj, g.number_of_edges, "ok", g.adj[label])}

\* DirectedGraph.add_edge that records the edge in both directions, as
\* UndirectedGraph.add_edge does.
Directed_add_edge_both_ways(g, u_label, v_label) ==
    LET a1 == setdefault_empty(setdefault_empty(g.adj, u_label), v_label)
        b1 == setdefault_empty(setdefault_empty(g.back_adj, u_label), v_label)
    IN  {Result(set_add(set_add(a1, u_label, v_label), v_label, u_label),
                set_add(set_add(b1, v_label, u_label), u_label, v_label),
                g.number_of_edges + 1, "ok", {})}

\* DirectedGraph.add_edge
Directed_add_edge(g, u_label, v_label) ==
    LET a1 == setdefault_empty(setdefault_empty(g.adj, u_label), v_label)
        b1 == setdefault_empty(setdefault_empty(g.back_adj, u_label), v_label)
    IN  {Result(set_add(a1, u_label, v_label), set_add(b1, v_label, u_label),
                g.number_of_edges + 1, "ok", {})}

\* DirectedGraph.remove_node without the loop over the parents: the node is
\* deleted while its parents' successor sets still hold it.
Directed_remove_node_skip_parents(g, label) ==
    IF ~NodesView_contains(g.adj, label)
    THEN {Result(g.adj, g.back_adj, g.number_of_edges, "DoesNotExistError", {})}
    ELSE {Result(dict_del(g.adj, label), g.back_adj,
                 g.number_of_edges - Cardinality(g.adj[label]), "ok", {})}

\* DirectedGraph.remove_node
Directed_remove_node(g, label) ==
    IF ~NodesView_contains(g.adj, label)
    THEN {Result(g.adj, g.back_adj, g.number_of_edges, "DoesNotExistError", {})}
    ELSE IF label \notin DOMAIN g.back_adj
    THEN {Result(g.adj, g.back_adj, g.number_of_edges, "KeyError", {})}
    ELSE LET self_loop == label \in g.back_adj[label]
             a1 == IF self_loop THEN set_discard(g.adj, label, label) ELSE g.adj
             b1 == IF self_loop THEN set_discard(g.back_adj, label, label) ELSE g.back_adj
             n1 == IF self_loop THEN g.number_of_edges - 1 ELSE g.number_of_edges
         IN  {IF r.outcome = "ok"
              THEN Result(dict_del(r.adj, label), b1,
                          n1 - r.visited - Cardinality(r.adj[label]), "ok", {})
              ELSE Result(r.adj, b1, n1 - r.visited, r.outcome, {}) :
                  r \in discard_loop(a1, b1[label], label, FALSE)}

\* DirectedGraph.remove_edge without "self._number_of_edges -= 1".
Directed_remove_edge_no_decrement(g, u_label, v_label) ==
    IF ~EdgeView_contains(g.adj, u_label, v_label)
    THEN {Result(g.adj, g.back_adj, g.number_of_edges, "DoesNotExistError", {})}
    ELSE {Result(set_discard(g.adj, u_label, v_label),
                 set_discard(g.back_adj, v_label, u_label),
                 g.number_of_edges, "ok", {})}

\* DirectedGraph.remove_edge
Directed_remove_edge(g, u_label, v_label) ==
    IF ~EdgeView_contains(g.adj, u_label, v_label)
    THEN {Result(g.adj, g.back_adj, g.number_of_edges, "DoesNotExistError", {})}
    ELSE LET a1 == set_discard(g.adj, u_label, v_label)
         IN  IF v_label \notin DOMAIN g.back_adj
             THEN {Result(a1, g.back_adj, g.number_of_edges, "KeyError", {})}
             ELSE {Result(a1, set_discard(g.back_adj, v_label, u_label),
                          g.number_of_edges - 1, "ok", {})}

\* DirectedGraph.predecessors: self.back_adj[label]
predecessors(g, label) ==
    IF label \notin DOMAIN g.back_adj
    THEN {Result(g.adj, g.back_adj, g.number_of_edges, "KeyError", {})}
    ELSE {Result(g.adj, g.back_adj, g.number_of_edges, "ok", g.back_adj[label])}

\* "(u, v) in g.edges" with __contains__ lacking the except clause: the
\* KeyError of self._adj[u] reaches the caller.
edges_contains_no_except(g, u, v) ==
    IF u \notin DOMAIN g.adj
    THEN {Result(g.adj, g.back_adj, g.number_of_edges, "KeyError", FALSE)}
    ELSE {Result(g.adj, g.back_adj, g.number_of_edges, "ok", v \in g.adj[u])}

\* "(u, v) in g.edges": _Graph.edges makes a view of self.adj and
\* _EdgeView.__contains__ answers; the value returned is a boolean.
edges_contains(g, u, v) ==
    {Result(g.adj, g.back_adj, g.number_of_edges, "ok", EdgeView_contains(g.adj, u, v))}

\* The orders in which "for u, neighbors in self._adj.items()" can visit the
\* keys of the dictionary a: the sequences without repetition of all keys.
RECURSIVE Orders(_)
Orders(keys) ==
    IF keys = {}
    THEN {<<>>}
    ELSE UNION {{<<k>> \o order : order \in Orders(keys \ {k})} : k \in keys}

KeyOrders(a) == Orders(DOMAIN a)

\* The state of one run of an edge iterator: the set "seen", the pairs
\* yielded so far and how many yields there were.
IterStart == [seen |-> {}, yielded |-> {}, count |-> 0]

\* The inner loop "for v in neighbors" of _UndirectedEdgeView.__iter__ at
\* key u: a pair (u, v) is yielded when frozenset((u, v)) is not in seen.
\* The frozensets of two different v differ, so the order in which the set
\* is visited changes neither the pairs yielded nor seen.
UndirectedEdgeView_iter_neighbors(u, nbrs, st) ==
    LET fresh == {v \in nbrs : {u, v} \notin st.seen}
    IN  [seen |-> st.seen \cup {{u, v} : v \in fresh},
         yielded |-> st.yielded \cup {<<u, v>> : v \in fresh},
         count |-> st.count + Cardinality(fresh)]

\* The outer loop of _UndirectedEdgeView.__iter__ over the keys in the given
\* order.
RECURSIVE UndirectedEdgeView_iter_items(_, _, _)
UndirectedEdgeView_iter_items(a, order, st) ==
    IF order = <<>>
    THEN st
    ELSE UndirectedEdgeView_iter_items(a, Tail(order),
             UndirectedEdgeView_iter_neighbors(Head(order), a[Head(order)], st))

\* The loops of _DirectedEdgeView.__iter__, which has no set seen: every
\* pair (u, v) with v in adj[u] is yielded.
RECURSIVE DirectedEdgeView_iter_items(_, _, _)
DirectedEdgeView_iter_items(a, order, st) ==
    IF order = <<>>
    THEN st
    ELSE LET u == Head(order)
         IN  DirectedEdgeView_iter_items(a, Tail(order),
                 [seen |-> st.seen,
                  yielded |-> st.yielded \cup {<<u, v>> : v \in a[u]},
                  count |-> st.count + Cardinality(a[u])])

\* "list(g.edges)" on an UndirectedGraph whose edge view iterates as
\* _DirectedEdgeView does.
UndirectedEdgeView_iter_unseen(g, order) ==
    LET s == DirectedEdgeView_iter_items(g.adj, order, IterStart)
    IN  {Result(g.adj, g.back_adj, g.number_of_edges, "ok",
                [yielded |-> s.yielded, count |-> s.count])}

\* "list(g.edges)" on an UndirectedGraph: one full run of
\* _UndirectedEdgeView.__iter__ on a fresh view; the value is the set of
\* pairs yielded and the number of yields.
UndirectedEdgeView_iter(g, order) ==
    LET s == UndirectedEdgeView_iter_items(g.adj, order, IterStart)
    IN  {Result(g.adj, g.back_adj, g.number_of_edges, "ok",
                [yielded |-> s.yielded, count |-> s.count])}

\* "len(view)" for a view constructed with counter value n: the builtin calls
\* _EdgeView.__len__ and raises ValueError when the result is negative.
builtin_len(n) ==
    IF EdgeView_len(n) >= 0
    THEN [outcome |-> "ok", value |-> EdgeView_len(n)]
    ELSE [outcome |-> "ValueError", value |-> 0]

(***************************************************************************)
(* The state machine: a graph of either class and the calls made on it.    *)
(***************************************************************************)

self == Graph(adj, back_adj, number_of_edges)

IsUndirected == graph_class = "UndirectedGraph"
IsDirected == graph_class = "DirectedGraph"

\* The labels the calls draw their arguments from.
Labels == IF IsUndirected THEN 1..NumLabels ELSE 1..NumDirectedLabels

\* The number of edges in the store a of the graph.
TrueEdgeCount(a) ==
    IF IsUndirected THEN Cardinality(UnorderedPairs(a)) ELSE Cardinality(OrderedPairs(a))

Abs(i) == IF i < 0 THEN -i ELSE i

\* _Graph.__init__ and DirectedGraph.__init__ (an UndirectedGraph has no
\* back_adj: the empty dictionary stands for it and no method touches it)
Init ==
    /\ graph_class \in {"UndirectedGraph", "DirectedGraph"}
    /\ adj = EmptyDict
    /\ back_adj = EmptyDict
    /\ number_of_edges = 0
    /\ edge_view = NoView
    /\ pre = Graph(EmptyDict, EmptyDict, 0)
    /\ last = [op |-> "__init__", args |-> <<>>, outcome |-> "ok", value |-> {}]

\* One call of a method with the given results.
Call(op, args, results) ==
    \E r \in results :
        /\ IsDirected => Abs(r.number_of_edges - TrueEdgeCount(r.adj)) <= MaxDrift
        /\ adj' = r.adj
        /\ back_adj' = r.back_adj
        /\ number_of_edges' = r.number_of_edges
        /\ pre' = self
        /\ last' = [op |-> op, args |-> args, outcome |-> r.outcome, value |-> r.value]
        /\ UNCHANGED <<graph_class, edge_view>>


AddNode ==
    \E label \in Labels : Call("add_node", <<label>>, add_node(self, label))

ArbitraryNode ==
    \E g \in {self} : Call("arbitrary_node", <<>>, arbitrary_node(g))

Neighbors ==
    \E label \in Labels : Call("neighbors", <<label>>, neighbors(self, label))

Contains ==
    \E u, v \in Labels : Call("contains", <<u, v>>, edges_contains(self, u, v))

UndirectedAddEdge ==
    /\ IsUndirected
    /\ \E u, v \in Labels : Call("add_edge", <<u, v>>, Undirected_add_edge(self, u, v))

UndirectedRemoveNode ==
    /\ IsUndirected
    /\ \E label \in Labels : Call("remove_node", <<label>>, Undirected_remove_node(self, label))

UndirectedRemoveEdge ==
    /\ IsUndirected
    /\ \E u, v \in Labels : Call("remove_edge", <<u, v>>, Undirected_remove_edge(self, u, v))

DirectedAddEdge ==
    /\ IsDirected
    /\ \E u, v \in Labels : Call("add_edge", <<u, v>>, Directed_add_edge(self, u, v))

DirectedRemoveNode ==
    /\ IsDirected
    /\ \E label \in Labels : Call("remove_node", <<label>>, Directed_remove_node(self, label))

DirectedRemoveEdge ==
    /\ IsDirected
    /\ \E u, v \in Labels : Call("remove_edge", <<u, v>>, Directed_remove_edge(self, u, v))

Successors ==
    /\ IsDirected
    /\ \E label \in Labels : Call("successors", <<label>>, neighbors(self, label))

Predecessors ==
    /\ IsDirected
    /\ \E label \in Labels : Call("predecessors", <<label>>, predecessors(self, label))

\* The edges property: the caller obtains an edge view and keeps it.  The
\* view is constructed from the adj dictionary (a reference: the view sees
\* the graph's later changes) and from the counter (an int: the view keeps
\* the value the counter had).
Edges ==
    /\ edge_view' = [held |-> TRUE, number_of_edges |-> number_of_edges]
    /\ pre' = self
    /\ last' = [op |-> "edges", args |-> <<>>, outcome |-> "ok", value |-> {}]
    /\ UNCHANGED <<graph_class, adj, back_adj, number_of_edges>>

\* list(g.edges) on an UndirectedGraph, the dictionary visiting its keys in
\* any order.
IterateEdges ==
    /\ IsUndirected
    /\ Call("iter", <<>>,
            UNION {UndirectedEdgeView_iter(self, order) : order \in KeyOrders(adj)})

NextUndirected ==
    \/ AddNode
    \/ ArbitraryNode
    \/ Neighbors
    \/ Contains
    \/ UndirectedAddEdge
    \/ UndirectedRemoveNode
    \/ UndirectedRemoveEdge

NextDirected ==
    \/ AddNode
    \/ ArbitraryNode
    \/ Neighbors
    \/ Contains
    \/ DirectedAddEdge
    \/ DirectedRemoveNode
    \/ DirectedRemoveEdge
    \/ Successors
    \/ Predecessors

Next == NextUndirected \/ NextDirected

\* A graph of either class.
Spec == Init /\ [][Next]_vars

\* An UndirectedGraph.
InitUndirected == Init /\ IsUndirected
UndirectedSpec == InitUndirected /\ [][NextUndirected]_vars

\* A DirectedGraph.
InitDirected == Init /\ IsDirected
DirectedSpec == InitDirected /\ [][NextDirected]_vars

\* A graph of either class whose caller also holds an edge view.
ViewSpec == Init /\ [][Next \/ Edges]_vars

\* An UndirectedGraph that is changed by its four mutating methods and whose
\* edges are iterated over.
NextIter ==
    \/ AddNode
    \/ UndirectedAddEdge
    \/ UndirectedRemoveNode
    \/ UndirectedRemoveEdge
    \/ IterateEdges

IterSpec == InitUndirected /\ [][NextIter]_vars

(***************************************************************************)
(* Properties.                                                             *)
(***************************************************************************)

\* The last call was op and it returned normally / at all.
Returned(op) == last.op = op /\ last.outcome = "ok"
Called(op) == last.op = op

\* The edges of a directed store that have x as source or target.
IncidentPairs(a, x) == {p \in OrderedPairs(a) : p[1] = x \/ p[2] = x}

\* C1: on an UndirectedGraph the edge counter that len(edges) returns is
\* always the number of distinct unordered pairs {u, v} with v in adj[u].
C1_UndirectedCounterIsEdgeCount ==
    IsUndirected => EdgeView_len(number_of_edges) = Cardinality(UnorderedPairs(adj))

\* C1 witness: a remove_node that took two edges away at once and left one.
C1_Witness ==
    /\ IsUndirected
    /\ Returned("remove_node")
    /\ pre.number_of_edges = 3
    /\ number_of_edges = 1
    /\ Cardinality(UnorderedPairs(adj)) = 1

\* C2: on a DirectedGraph the edge counter is always the number of distinct
\* ordered pairs (u, v) with v in adj[u], and so is never negative.
C2_DirectedCounterIsEdgeCount ==
    IsDirected =>
        /\ EdgeView_len(number_of_edges) = Cardinality(OrderedPairs(adj))
        /\ number_of_edges >= 0

\* C3: on a DirectedGraph, v is in adj[u] exactly when u is in back_adj[v].
C3_ForwardReverseConsistent ==
    IsDirected =>
        \A u, v \in Labels :
            EdgeView_contains(adj, u, v) <=> EdgeView_contains(back_adj, v, u)

\* C4: on an UndirectedGraph adj is always symmetric and holds no self-loop.
C4_UndirectedSymmetricNoSelfLoop ==
    IsUndirected =>
        /\ \A u, v \in Labels :
               EdgeView_contains(adj, u, v) <=> EdgeView_contains(adj, v, u)
        /\ \A x \in Labels : ~EdgeView_contains(adj, x, x)

\* C4 witness: a remove_edge called with the endpoints in the order opposite
\* to the add_edge's, on a graph that keeps two other edges.
C4_Witness ==
    /\ IsUndirected
    /\ Returned("remove_edge")
    /\ last.args = <<2, 1>>
    /\ 2 \in pre.adj[1] /\ 1 \in pre.adj[2]
    /\ 2 \notin adj[1] /\ 1 \notin adj[2]
    /\ Cardinality(UnorderedPairs(adj)) = 2

\* C5: DirectedGraph.add_edge(u, v) on an edge that is already in edges
\* changes neither adj, nor back_adj, nor the edge counter.
C5_DirectedAddEdgeIdempotent ==
    (IsDirected /\ Called("add_edge")
        /\ EdgeView_contains(pre.adj, last.args[1], last.args[2])) =>
            /\ adj = pre.adj
            /\ back_adj = pre.back_adj
            /\ number_of_edges = pre.number_of_edges

\* C6: DirectedGraph.remove_node(x) on a node x succeeds, removes x from the
\* nodes, removes exactly the edges with x as source or target and lowers
\* the counter by the number of those edges, a self-loop counted once.
C6_DirectedRemoveNodeCascade ==
    (IsDirected /\ Called("remove_node")
        /\ NodesView_contains(pre.adj, last.args[1])) =>
            LET x == last.args[1] IN
            /\ last.outcome = "ok"
            /\ DOMAIN adj = (DOMAIN pre.adj) \ {x}
            /\ OrderedPairs(adj) = OrderedPairs(pre.adj) \ IncidentPairs(pre.adj, x)
            /\ number_of_edges =
                   pre.number_of_edges - Cardinality(IncidentPairs(pre.adj, x))

\* C7: an edge view obtained earlier answers as a view obtained now would.
\* Membership and iteration read the adj dictionary the graph itself uses,
\* so the two views can differ only in the count they report.
C7_HeldEdgeViewInSync ==
    edge_view.held =>
        EdgeView_len(edge_view.number_of_edges) = EdgeView_len(number_of_edges)

\* C8: a call that fails leaves adj, back_adj and the edge counter as they
\* were before the call.
C8_NoPartialMutationOnFailure ==
    last.outcome # "ok" =>
        /\ adj = pre.adj
        /\ back_adj = pre.back_adj
        /\ number_of_edges = pre.number_of_edges

\* C9: on a DirectedGraph the keys of back_adj are the keys of adj, so that
\* predecessors(label) succeeds exactly when label is a node, returning the
\* empty set for a node add_node has just created.
C9_BackAdjKeysAreNodes ==
    IsDirected =>
        /\ DOMAIN back_adj = DOMAIN adj
        /\ Called("predecessors") =>
               (last.outcome = "ok" <=> NodesView_contains(adj, last.args[1]))

\* C10: UndirectedGraph.add_edge(u, v) with u # v makes u and v nodes and
\* (u, v) and (v, u) members of edges; the counter goes up by exactly 1 when
\* the edge was absent, and when the edge was present in either orientation
\* the counter and adj stay as they were.
C10_UndirectedAddEdgeEffect ==
    (IsUndirected /\ Called("add_edge") /\ last.args[1] # last.args[2]) =>
        LET u == last.args[1]
            v == last.args[2]
            present == EdgeView_contains(pre.adj, u, v) \/ EdgeView_contains(pre.adj, v, u)
        IN  /\ last.outcome = "ok"
            /\ NodesView_contains(adj, u) /\ NodesView_contains(adj, v)
            /\ EdgeView_contains(adj, u, v) /\ EdgeView_contains(adj, v, u)
            /\ ~present => EdgeView_len(number_of_edges) = EdgeView_len(pre.number_of_edges) + 1
            /\ present => /\ EdgeView_len(number_of_edges) = EdgeView_len(pre.number_of_edges)
                          /\ adj = pre.adj

\* C10 witness: add_edge(2, 1) called again after add_edge(1, 2), on a graph
\* that has another edge as well.
C10_Witness ==
    /\ IsUndirected
    /\ Returned("add_edge")
    /\ last.args = <<2, 1>>
    /\ EdgeView_contains(pre.adj, 1, 2)
    /\ pre.number_of_edges = 2
    /\ number_of_edges = 2

\* remove_edge of the class of the graph, applied to the current state.
remove_edge(u, v) ==
    IF IsUndirected THEN Undirected_remove_edge(self, u, v)
    ELSE Directed_remove_edge(self, u, v)

\* A step that calls remove_edge on the pair the preceding, successful
\* add_edge was called on (in either order of the endpoints on an
\* UndirectedGraph).  In its first state pre is the graph before the add_edge.
RoundTripStep ==
    /\ Returned("add_edge")
    /\ last'.op = "remove_edge"
    /\ \/ last'.args = last.args
       \/ IsUndirected /\ last'.args = <<last.args[2], last.args[1]>>

RoundTripRestores ==
    /\ EdgeView_len(number_of_edges') = EdgeView_len(pre.number_of_edges)
    /\ EdgeView_contains(adj', last.args[1], last.args[2])
           <=> EdgeView_contains(pre.adj, last.args[1], last.args[2])

\* C11 as stated: add_edge(u, v) followed by remove_edge(u, v) (or
\* remove_edge(v, u) on an UndirectedGraph) restores len(edges) and the
\* membership of (u, v) in edges to what they were before the add_edge.
C11_RoundTrip ==
    [][RoundTripStep => RoundTripRestores]_vars

\* C11 amended: the same, for a pair (u, v) that was not in edges before the
\* add_edge.
C11_RoundTripOfAbsentEdge ==
    [][(RoundTripStep /\ ~EdgeView_contains(pre.adj, last.args[1], last.args[2]))
           => RoundTripRestores]_vars

\* C11 witness: add_edge has just added an edge that was absent, to a graph
\* that had an edge already, and the remove_edge that follows succeeds and
\* takes the counter back.
C11_Witness ==
    /\ Returned("add_edge")
    /\ last.args[1] # last.args[2]
    /\ ~EdgeView_contains(pre.adj, last.args[1], last.args[2])
    /\ pre.number_of_edges >= 1
    /\ \E r \in remove_edge(last.args[1], last.args[2]) :
           r.outcome = "ok" /\ r.number_of_edges = pre.number_of_edges

\* C12: UndirectedGraph.add_edge(x, x) fails with ValueError and leaves the
\* node set, adj and the edge counter as they were; x is not made a node.
C12_SelfLoopRejected ==
    (IsUndirected /\ Called("add_edge") /\ last.args[1] = last.args[2]) =>
        /\ last.outcome = "ValueError"
        /\ DOMAIN adj = DOMAIN pre.adj
        /\ adj = pre.adj
        /\ number_of_edges = pre.number_of_edges

\* C12 witness: add_edge(x, x) on a label that is no node of a graph that has
\* an edge.
C12_Witness ==
    /\ IsUndirected
    /\ Called("add_edge")
    /\ last.args[1] = last.args[2]
    /\ last.outcome = "ValueError"
    /\ ~NodesView_contains(adj, last.args[1])
    /\ number_of_edges >= 1

\* C13: UndirectedGraph.remove_node(x) on a node x removes x from the nodes
\* and from the set of every former neighbor, leaves no pair with x in
\* edges, lowers the counter by the former degree of x and leaves every
\* edge not incident to x in place.
C13_UndirectedRemoveNodeCascade ==
    (IsUndirected /\ Called("remove_node")
        /\ NodesView_contains(pre.adj, last.args[1])) =>
            LET x == last.args[1] IN
            /\ last.outcome = "ok"
            /\ DOMAIN adj = (DOMAIN pre.adj) \ {x}
            /\ \A y \in pre.adj[x] : x \notin adj[y]
            /\ \A y \in Labels : ~EdgeView_contains(adj, x, y) /\ ~EdgeView_contains(adj, y, x)
            /\ EdgeView_len(number_of_edges) =
                   EdgeView_len(pre.number_of_edges) - Cardinality(pre.adj[x])
            /\ OrderedPairs(adj) = OrderedPairs(pre.adj) \ IncidentPairs(pre.adj, x)

\* C13 witness: the three edges of the graph all meet at node 1, and
\* remove_node(1) leaves no edge.
C13_Witness ==
    /\ IsUndirected
    /\ Returned("remove_node")
    /\ last.args = <<1>>
    /\ pre.adj = (1 :> {2, 3, 4} @@ 2 :> {1} @@ 3 :> {1} @@ 4 :> {1})
    /\ pre.number_of_edges = 3
    /\ number_of_edges = 0

\* The call left adj, back_adj and the edge counter as they were.
Unchanged ==
    /\ adj = pre.adj
    /\ back_adj = pre.back_adj
    /\ number_of_edges = pre.number_of_edges

\* C14: remove_node of a label that is no node, and remove_edge of a pair
\* that is not in edges (its endpoints being nodes or not), fail with
\* DoesNotExistError and leave the nodes, the edges and the counter unchanged.
C14_MissingElementErrors ==
    /\ (Called("remove_node") /\ ~NodesView_contains(pre.adj, last.args[1])) =>
           last.outcome = "DoesNotExistError" /\ Unchanged
    /\ (Called("remove_edge")
           /\ ~EdgeView_contains(pre.adj, last.args[1], last.args[2])) =>
           last.outcome = "DoesNotExistError" /\ Unchanged

\* C14 witness: remove_edge(u, v) with u and v distinct and u no node, on a
\* graph that has an edge.
C14_Witness ==
    /\ Called("remove_edge")
    /\ last.outcome = "DoesNotExistError"
    /\ last.args[1] # last.args[2]
    /\ ~NodesView_contains(adj, last.args[1])
    /\ OrderedPairs(adj) # {}

\* C15: one full iteration of the edges of an UndirectedGraph yields every
\* edge exactly once, in one orientation only; every pair yielded is a member
\* of edges, and the number of pairs yielded is len(edges).
C15_UndirectedIterationOncePerEdge ==
    (IsUndirected /\ Called("iter")) =>
        LET yielded == last.value.yielded
            count == last.value.count
        IN  /\ last.outcome = "ok"
            /\ \A p \in yielded : <<p[2], p[1]>> \notin yielded
            /\ \A p \in yielded : EdgeView_contains(adj, p[1], p[2])
            /\ {{p[1], p[2]} : p \in yielded} = UnorderedPairs(adj)
            /\ count = Cardinality(UnorderedPairs(adj))
            /\ builtin_len(number_of_edges) = [outcome |-> "ok", value |-> count]
            /\ Unchanged

\* C15 witness: an iteration over three edges or more that yields one pair
\* with the smaller label first and another with the larger label first.
C15_Witness ==
    /\ IsUndirected
    /\ Returned("iter")
    /\ last.value.count >= 3
    /\ \E p, q \in last.value.yielded : p[1] < p[2] /\ q[1] > q[2]

\* C16: "(u, v) in edges" returns a boolean and never fails, returns False
\* when u or v is no node, and leaves the graph as it was.
C16_EdgeMembershipTotal ==
    Called("contains") =>
        /\ last.outcome = "ok"
        /\ last.value \in BOOLEAN
        /\ (~NodesView_contains(adj, last.args[1])
               \/ ~NodesView_contains(adj, last.args[2])) => last.value = FALSE
        /\ Unchanged

\* C16 witness: the query (u, v) in edges with u no node and v a node that
\* has an edge.
C16_Witness ==
    /\ Returned("contains")
    /\ ~NodesView_contains(adj, last.args[1])
    /\ NodesView_contains(adj, last.args[2])
    /\ adj[last.args[2]] # {}
    /\ last.value = FALSE

\* C17: DirectedGraph.add_edge(u, v) with u # v puts (u, v) in edges, v in
\* successors(u) and u in predecessors(v), and leaves the membership of
\* (v, u) as it was; a pair becomes a member of edges only by an add_edge
\* of that pair, so that (v, u) is no member when it was never added.
C17_DirectedAsymmetry ==
    IsDirected =>
        /\ (Called("add_edge") /\ last.args[1] # last.args[2]) =>
               LET u == last.args[1]
                   v == last.args[2]
               IN  /\ last.outcome = "ok"
                   /\ \A r \in edges_contains(self, u, v) : r.outcome = "ok" /\ r.value
                   /\ \A r \in neighbors(self, u) : r.outcome = "ok" /\ v \in r.value
                   /\ \A r \in predecessors(self, v) : r.outcome = "ok" /\ u \in r.value
                   /\ EdgeView_contains(adj, v, u) <=> EdgeView_contains(pre.adj, v, u)
        /\ \A a, b \in Labels :
               (EdgeView_contains(adj, a, b) /\ ~EdgeView_contains(pre.adj, a, b)) =>
                   Called("add_edge") /\ last.args = <<a, b>>

\* C17 witness: add_edge(1, 2) on a graph that has an edge and in which
\* (2, 1) is no edge, before or after.
C17_Witness ==
    /\ IsDirected
    /\ Returned("add_edge")
    /\ last.args = <<1, 2>>
    /\ pre.number_of_edges >= 1
    /\ ~EdgeView_contains(pre.adj, 1, 2)
    /\ EdgeView_contains(adj, 1, 2)
    /\ ~EdgeView_contains(adj, 2, 1)

\* C18: arbitrary_node() returns a node of the graph when there is one,
\* fails with DoesNotExistError exactly when there is none, and leaves the
\* graph as it was.
C18_ArbitraryNode ==
    Called("arbitrary_node") =>
        /\ DOMAIN pre.adj # {} =>
               /\ last.outcome = "ok"
               /\ \E x \in DOMAIN adj : last.value = {x}
        /\ last.outcome = "DoesNotExistError" <=> DOMAIN pre.adj = {}
        /\ last.outcome \in {"ok", "DoesNotExistError"}
        /\ Unchanged

\* C18 witness: arbitrary_node() on a graph of several nodes returns one of
\* them.
C18_Witness ==
    /\ Returned("arbitrary_node")
    /\ Cardinality(DOMAIN adj) >= 2
    /\ last.value \subseteq DOMAIN adj
    /\ last.value # {}

\* The frame of a successful remove_edge(u, v): the nodes stay, every other
\* edge keeps its membership, and (u, v) is no member any more, nor (v, u)
\* on an UndirectedGraph.
RemoveEdgeFrame ==
    LET u == last.args[1]
        v == last.args[2]
    IN  /\ DOMAIN adj = DOMAIN pre.adj
        /\ NodesView_contains(adj, u) /\ NodesView_contains(adj, v)
        /\ ~EdgeView_contains(adj, u, v)
        /\ IsUndirected => ~EdgeView_contains(adj, v, u)
        /\ \A a, b \in Labels :
               (IF IsUndirected THEN {a, b} # {u, v} ELSE <<a, b>> # <<u, v>>) =>
                   (EdgeView_contains(adj, a, b) <=> EdgeView_contains(pre.adj, a, b))

\* C19: a successful remove_edge(u, v) lowers len(edges) by exactly 1, keeps
\* the node set and the membership of every other edge; it removes both
\* orientations on an UndirectedGraph and leaves (v, u) alone on a
\* DirectedGraph.
C19_RemoveEdgeFrame ==
    Returned("remove_edge") =>
        /\ builtin_len(pre.number_of_edges).outcome = "ok"
        /\ builtin_len(number_of_edges).outcome = "ok"
        /\ builtin_len(number_of_edges).value = builtin_len(pre.number_of_edges).value - 1
        /\ RemoveEdgeFrame

\* C20: add_node(label) on a node changes nothing (the node set, the
\* successor and predecessor sets, the edges and the counter stay); on a
\* label that is no node it adds that one node, whose successor set and, on
\* a DirectedGraph, predecessor set are empty, and changes nothing else.
C20_AddNodeEffect ==
    Called("add_node") =>
        LET label == last.args[1] IN
        /\ last.outcome = "ok"
        /\ NodesView_contains(pre.adj, label) => Unchanged
        /\ ~NodesView_contains(pre.adj, label) =>
               /\ DOMAIN adj = (DOMAIN pre.adj) \cup {label}
               /\ \A x \in DOMAIN pre.adj : adj[x] = pre.adj[x]
               /\ OrderedPairs(adj) = OrderedPairs(pre.adj)
               /\ number_of_edges = pre.number_of_edges
               /\ \A r \in neighbors(self, label) : r.outcome = "ok" /\ r.value = {}
               /\ IsDirected =>
                      \A r \in predecessors(self, label) :
                          r.outcome = "ok" /\ r.value = {}

\* C21: on a DirectedGraph, after any sequence of calls, those that fail
\* part-way included, every forward edge points to a node and is recorded in
\* the reverse map: if v is in adj[u] then v is a key of adj, v is a key of
\* back_adj and u is in back_adj[v].
C21_ForwardEdgesRecorded ==
    IsDirected =>
        \A u \in DOMAIN adj : \A v \in adj[u] :
            /\ v \in DOMAIN adj
            /\ v \in DOMAIN back_adj
            /\ u \in back_adj[v]

\* C21 witness: a remove_node that failed after it had changed adj, in a
\* graph that had an edge and whose back_adj holds an entry adj does not.
C21_Witness ==
    /\ IsDirected
    /\ Called("remove_node")
    /\ last.outcome = "KeyError"
    /\ adj # pre.adj
    /\ OrderedPairs(pre.adj) # {}
    /\ \E v \in DOMAIN back_adj : \E u \in back_adj[v] :
           ~EdgeView_contains(adj, u, v)

====
